---- MODULE Spec2Model ----
(***************************************************************************)
(* Model of the bible-search library: the multi-strategy search of         *)
(* BibleSearcher.search (fan-out, de-duplication, ranking, truncation,     *)
(* score stripping, categorization), the embedding cache protocol of      *)
(* SemanticSearcher.load_verses, and the life of a BibleSearcher over a    *)
(* persistent store (construction, initialize, forced reload, search on a  *)
(* searcher not yet initialized).                                          *)
(*                                                                         *)
(* Scores are kept in hundredths of a point so that the 0-100 scale of the *)
(* literal and fuzzy strategies and the 0-1 scale of the vector strategy   *)
(* live in one integer domain without any conversion the code does not     *)
(* make: a fuzzy score of 75 is 7500, a cosine similarity of 0.9 is 90.    *)
(*                                                                         *)
(* A Python dict is a function from field names to values; a dict used as  *)
(* an ordered mapping (insertion order) is a sequence of key/value pairs.  *)
(***************************************************************************)
EXTENDS Integers, Sequences, FiniteSets, TLC

VARIABLES
    pc,             \* "idle" | "done": position of the caller of search()
    call,           \* arguments of the search() call in progress
    facts,          \* what the collaborators measure for this query
    arrived,        \* local `results` of search() before de-duplication
    fused,          \* local `results` of search() after sort/limit/strip
    response,       \* the dict search() returns
    invoked,        \* collaborator calls the handler in progress has made
    raised,         \* the exception that left the handler, or "none"
    is_initialized, \* BibleSearcher.is_initialized
    store,          \* rows of the verses table, joined as get_all_verses does
    data_dir,       \* what BibleSearcher.data_dir points at
    fuzzy_verses,   \* FuzzySearcher.verses
    sem_verses,     \* SemanticSearcher.verses
    embeddings,     \* SemanticSearcher.embeddings (None or one per verse)
    cache_file,     \* contents of SemanticSearcher.embeddings_file
    last_load,      \* how the last load_verses call went
    cat_in,         \* argument of _categorize_results
    cat_out         \* its return value

vars == <<pc, call, facts, arrived, fused, response, invoked, raised,
          is_initialized, store, data_dir, fuzzy_verses, sem_verses, embeddings,
          cache_file, last_load, cat_in, cat_out>>

searchVars == <<pc, call, facts, arrived, fused, response, invoked, raised>>
initVars == <<is_initialized, store, data_dir>>
loadVars == <<fuzzy_verses, sem_verses, embeddings, cache_file, last_load>>
catVars == <<cat_in, cat_out>>

(***************************************************************************)
(* Bounds of the model.                                                    *)
(***************************************************************************)
\* number of verses in the store when queries are served
NumVerses == 2
\* search() is called with limit in MinLimit..MaxLimit
MaxLimit == 2
\* verse ids a corpus handed to load_verses may use
MaxVerseId == 2
\* longest corpus handed to load_verses
MaxCorpusLen == 2
\* longest list handed to _categorize_results on its own
MaxResults == 3
\* how many times the data files are imported into one store
MaxImports == 2

(***************************************************************************)
(* Program constants.                                                      *)
(***************************************************************************)
\* FuzzySearcher.search(score_cutoff=70), in points
ScoreCutoff == 70
\* SemanticSearcher.search(threshold=0.5), in hundredths
Threshold == 50
\* database.py: score = min(100, count * 10)
RankCap == 100
RankPerOccurrence == 10
\* the least limit search() is called with: limits of 0 and below ask for
\* no truncation (bible_search.py, lines 193-194)
MinLimit == 0 - 1

None == "None"

\* SemanticSearcher.embeddings: None, or the array encode() returned
NoEmbeddings == [is_none |-> TRUE, vectors |-> <<>>]
Array(vectors) == [is_none |-> FALSE, vectors |-> vectors]

\* the embeddings file: missing, not unpicklable, or the pickled dict
Absent == [state |-> "absent", data |-> <<>>]
Unreadable == [state |-> "unreadable", data |-> <<>>]
Pickled(data) == [state |-> "pickled", data |-> data]

Min(a, b) == IF a < b THEN a ELSE b

\* points of the 0-100 scale, in hundredths
Pts(p) == p * 100

(***************************************************************************)
(* Python dict helpers.                                                    *)
(***************************************************************************)
\* d[k] = v
With(d, k, v) == [f \in DOMAIN d \cup {k} |-> IF f = k THEN v ELSE d[f]]

\* del d[k] for every k of ks that d has
Without(d, ks) == [f \in DOMAIN d \ ks |-> d[f]]

\* d.get(k, default)
Get(d, k, default) == IF k \in DOMAIN d THEN d[k] ELSE default

(***************************************************************************)
(* The stored corpus.  A verse row carries id, text, book_name and         *)
(* chapter_name (name and translation are copied along untouched and are   *)
(* left out).  The same book name occurs in every translation, so rows of  *)
(* one book need not be adjacent in the table.                             *)
(***************************************************************************)
Books == <<"Genesis", "Exodus">>
Chapters == <<"Genesis 1", "Exodus 1">>

BookOf(id) == Books[((id - 1) % 2) + 1]
ChapterOf(id) == Chapters[((id - 1) % 2) + 1]

\* edition e of the data files gives verse id the text <<id, e>>
TextOf(id, edition) == <<id, edition>>

VerseRow(id, edition) ==
    [id |-> id, text |-> TextOf(id, edition),
     book_name |-> BookOf(id), chapter_name |-> ChapterOf(id)]

\* BibleDatabase.get_all_verses on the populated store
AllVerses == [i \in 1..NumVerses |-> VerseRow(i, 1)]

(***************************************************************************)
(* Sequence helpers.                                                       *)
(***************************************************************************)
\* seq[:n] for n >= 0
Take(seq, n) == SubSeq(seq, 1, Min(n, Len(seq)))

\* Python's seq[:n], any integer n
SliceTo(seq, n) ==
    IF n >= 0 THEN Take(seq, n)
    ELSE SubSeq(seq, 1, IF Len(seq) + n > 0 THEN Len(seq) + n ELSE 0)

\* the members of a set of numbers, ascending
Ascending(S) ==
    [p \in 1..Cardinality(S) |->
        CHOOSE i \in S : Cardinality({j \in S : j < i}) = p - 1]

\* list.sort(reverse=True) with key[i] the sort key of seq[i]: descending,
\* equal keys keep their order
SortDescending(seq, key) ==
    LET n == Len(seq)
        pos(i) == 1 + Cardinality({j \in 1..n :
                        \/ key[j] > key[i]
                        \/ key[j] = key[i] /\ j < i})
    IN  [p \in 1..n |-> seq[CHOOSE i \in 1..n : pos(i) = p]]

(***************************************************************************)
(* What the collaborators measure for one query.  The matching itself      *)
(* (SQL LIKE, term counting, token_set_ratio, cosine similarity) depends   *)
(* on query and verse text only and is drawn from small sets:              *)
(*   like   rows of the table the LIKE pattern matches                     *)
(*   occ    for a matched row, the number of query term occurrences        *)
(*   ratio  token_set_ratio of the query and each loaded text, in points   *)
(*   sim    cosine similarity of the query and each embedding, hundredths  *)
(*   order  np.argsort(-sim): descending, order of equal values not fixed  *)
(*   size   how many matches process.extract gives for a negative limit    *)
(* A collaborator that is not invoked measures nothing.                    *)
(***************************************************************************)
Counts == {8}
Ratios == {60, 75, 90}
Sims == {30, 90}

SearchTypes == {"exact", "fuzzy", "semantic", "topic", "all"}
Limits == MinLimit..MaxLimit

UsesLiteral(search_type) == search_type \in {"exact", "all"}
UsesFuzzy(search_type) == search_type \in {"fuzzy", "all"}
UsesVector(search_type) == search_type \in {"semantic", "topic", "all"}

Argsorts(sim) ==
    {p \in [DOMAIN sim -> DOMAIN sim] :
        /\ \A a, b \in DOMAIN sim : a # b => p[a] # p[b]
        /\ \A a, b \in DOMAIN sim : a < b => sim[p[a]] >= sim[p[b]]}

LiteralFacts(search_type) ==
    IF UsesLiteral(search_type)
    THEN UNION {{[like |-> S, occ |-> o] : o \in [S -> Counts]} :
                    S \in SUBSET (DOMAIN store)}
    ELSE {[like |-> {}, occ |-> <<>>]}

FuzzyFacts(search_type) ==
    IF UsesFuzzy(search_type) /\ fuzzy_verses # <<>>
    THEN [DOMAIN fuzzy_verses -> Ratios]
    ELSE {<<>>}

\* process.extract is library code: what it makes of a negative limit is
\* not the repository's to say, and any number of the best matches may
\* come back
ExtractSizes(search_type, limit, ratio) ==
    IF UsesFuzzy(search_type) /\ limit < 0
    THEN 0..Cardinality({i \in DOMAIN ratio : ratio[i] >= ScoreCutoff})
    ELSE {0}

VectorFacts(search_type) ==
    IF UsesVector(search_type) /\ ~embeddings.is_none /\ sem_verses # <<>>
    THEN UNION {{[sim |-> s, order |-> p] : p \in Argsorts(s)} :
                    s \in [DOMAIN embeddings.vectors -> Sims]}
    ELSE {[sim |-> <<>>, order |-> <<>>]}

(***************************************************************************)
(* BibleDatabase.search_text                                               *)
(***************************************************************************)
\* SQL "LIMIT n": a negative n is no limit
SqlLimit(rows, n) == IF n < 0 THEN rows ELSE Take(rows, n)

\* score = min(100, count * 10)
Relevance(count) == Pts(Min(RankCap, count * RankPerOccurrence))

search_text(q, limit) ==
    LET rows == SqlLimit(Ascending(q.like), limit)
        results == [k \in DOMAIN rows |->
                       With(store[rows[k]], "rank", Relevance(q.occ[rows[k]]))]
    IN  SortDescending(results, [k \in DOMAIN results |-> results[k].rank])

(***************************************************************************)
(* FuzzySearcher.search                                                    *)
(***************************************************************************)
\* rapidfuzz process.extract: the choices scoring at least score_cutoff,
\* best first, equal scores in corpus order, at most `limit` of them
\* (`size` of them when the limit is negative)
extract(ratio, limit, score_cutoff, size) ==
    LET n == Len(ratio)
        kept == Ascending({i \in 1..n : ratio[i] >= score_cutoff})
    IN  Take(SortDescending(kept, [k \in DOMAIN kept |-> ratio[kept[k]]]),
             IF limit >= 0 THEN limit ELSE size)

fuzzy_search(ratio, limit, size) ==
    IF fuzzy_verses = <<>> THEN <<>>
    ELSE LET matches == extract(ratio, limit, ScoreCutoff, size)
         IN  [k \in DOMAIN matches |->
                 With(fuzzy_verses[matches[k]], "score", Pts(ratio[matches[k]]))]

(***************************************************************************)
(* SemanticSearcher.search and search_by_theme                             *)
(***************************************************************************)
semantic_search(v, limit) ==
    IF embeddings.is_none \/ sem_verses = <<>> THEN <<>>
    ELSE LET top_indices == SliceTo(v.order, limit)
             passing == SelectSeq(top_indices, LAMBDA idx : v.sim[idx] >= Threshold)
         IN  [k \in DOMAIN passing |->
                 With(sem_verses[passing[k]], "semantic_score", v.sim[passing[k]])]

search_by_theme(v, limit) == semantic_search(v, limit)

(***************************************************************************)
(* The embedding provider: SentenceTransformer.encode.  The vector of a    *)
(* text is written as the text it encodes.                                 *)
(***************************************************************************)
encode_one(text) == <<"vec", text>>

\* texts = [verse['text'] for verse in verses]; self.model.encode(texts):
\* one vector per text, in order
encode(verses) == [p \in DOMAIN verses |-> encode_one(verses[p].text)]

(***************************************************************************)
(* BibleSearcher._categorize_results.  The nested dict is an ordered       *)
(* mapping: a sequence of [key, value] in insertion order.                 *)
(***************************************************************************)
HasKey(mapping, k) == \E i \in DOMAIN mapping : mapping[i].key = k

IndexOfKey(mapping, k) == CHOOSE i \in DOMAIN mapping : mapping[i].key = k

\* mapping[k] = value if k not in mapping, were the mapping to put a new
\* key first instead of last
SetDefaultFirst(mapping, k, value) ==
    IF HasKey(mapping, k) THEN mapping
    ELSE <<[key |-> k, value |-> value]>> \o mapping

\* mapping[k] = value if k not in mapping
SetDefault(mapping, k, value) ==
    IF HasKey(mapping, k) THEN mapping
    ELSE Append(mapping, [key |-> k, value |-> value])

\* the loop body, were it to insert(0, result) instead of append(result)
categorize_one_prepending(categorized, result) ==
    LET book_name == Get(result, "book_name", None)
        chapter_name == Get(result, "chapter_name", None)
        books == SetDefault(categorized, book_name, <<>>)
        b == IndexOfKey(books, book_name)
        chapters == SetDefault(books[b].value, chapter_name, <<>>)
        c == IndexOfKey(chapters, chapter_name)
    IN  [books EXCEPT ![b].value =
            [chapters EXCEPT ![c].value = <<result>> \o @]]

\* the loop body, were it to key the chapters by chapter_name.lower()
categorize_one_folding_case(categorized, result) ==
    LET book_name == Get(result, "book_name", None)
        recorded == Get(result, "chapter_name", None)
        chapter_name == IF recorded = "Genesis 1" THEN "genesis 1" ELSE recorded
        books == SetDefault(categorized, book_name, <<>>)
        b == IndexOfKey(books, book_name)
        chapters == SetDefault(books[b].value, chapter_name, <<>>)
        c == IndexOfKey(chapters, chapter_name)
    IN  [books EXCEPT ![b].value =
            [chapters EXCEPT ![c].value = Append(@, result)]]

\* one pass of the loop body, lines 238-247
categorize_one(categorized, result) ==
    LET book_name == Get(result, "book_name", None)
        chapter_name == Get(result, "chapter_name", None)
        books == SetDefault(categorized, book_name, <<>>)
        b == IndexOfKey(books, book_name)
        chapters == SetDefault(books[b].value, chapter_name, <<>>)
        c == IndexOfKey(chapters, chapter_name)
    IN  [books EXCEPT ![b].value =
            [chapters EXCEPT ![c].value = Append(@, result)]]

RECURSIVE categorize_from(_, _)
categorize_from(categorized, results) ==
    IF results = <<>> THEN categorized
    ELSE categorize_from(categorize_one(categorized, Head(results)), Tail(results))

_categorize_results(results) == categorize_from(<<>>, results)

(***************************************************************************)
(* BibleSearcher.search                                                    *)
(***************************************************************************)
\* the sort and de-duplication key, were it to fall back on the literal
\* strategy's 'rank': result.get('score', result.get('rank', 0))
ScoreOrRank(result) == Get(result, "score", Get(result, "rank", 0))

\* result.get('score', 0)
ScoreOf(result) == Get(result, "score", 0)

\* lines 153, 159: result['search_method'] = method
Tagged(method, result) == With(result, "search_method", method)

\* lines 165-168 and 174-177: tag, then rename semantic_score to score
TaggedRenamed(method, result) ==
    LET r == Tagged(method, result)
    IN  IF "semantic_score" \in DOMAIN r
        THEN With(Without(r, {"semantic_score"}), "score", r.semantic_score)
        ELSE r

\* the de-duplication pass, were a better entry to leave its key's place and
\* go to the end (del unique_results[id] before the assignment)
keep_best_moving(unique_results, result) ==
    IF \E i \in DOMAIN unique_results : unique_results[i].id = result.id
    THEN LET i == CHOOSE i \in DOMAIN unique_results :
                      unique_results[i].id = result.id
         IN  IF ScoreOf(result) > ScoreOf(unique_results[i])
             THEN Append(SelectSeq(unique_results, LAMBDA r : r.id # result.id),
                         result)
             ELSE unique_results
    ELSE Append(unique_results, result)

\* lines 183-185: one pass of the de-duplication loop; overwriting a key of
\* a dict keeps the key's position
keep_best(unique_results, result) ==
    IF \E i \in DOMAIN unique_results : unique_results[i].id = result.id
    THEN LET i == CHOOSE i \in DOMAIN unique_results :
                      unique_results[i].id = result.id
         IN  IF ScoreOf(result) > ScoreOf(unique_results[i])
             THEN [unique_results EXCEPT ![i] = result]
             ELSE unique_results
    ELSE Append(unique_results, result)

RECURSIVE dedup_from(_, _)
dedup_from(unique_results, results) ==
    IF results = <<>> THEN unique_results
    ELSE dedup_from(keep_best(unique_results, Head(results)), Tail(results))

\* lines 181-187: list(unique_results.values())
remove_duplicates(results) == dedup_from(<<>>, results)

\* line 190
sort_by_score(results) ==
    SortDescending(results, [k \in DOMAIN results |-> ScoreOf(results[k])])

\* lines 193-194
limit_results(results, limit) ==
    IF limit > 0 THEN Take(results, limit) ELSE results

\* the clean-up, were it to forget the literal strategy's 'rank'
strip_score_only(result) == Without(result, {"score"})

\* lines 199-202
strip_scores(result) == Without(result, {"score", "rank"})

\* lines 197-202
clean_up(results, include_scores) ==
    IF ~include_scores
    THEN [k \in DOMAIN results |-> strip_scores(results[k])]
    ELSE results

\* the dispatch, were the last test `in (TOPIC, ALL)`: a combined search
\* would query the vector index a second time, by theme
strategy_calls_theme_in_all(search_type) ==
    (IF search_type \in {"exact", "all"}
     THEN <<[collaborator |-> "db.search_text", method |-> "exact"]>>
     ELSE <<>>)
    \o (IF search_type \in {"fuzzy", "all"}
        THEN <<[collaborator |-> "fuzzy_searcher.search", method |-> "fuzzy"]>>
        ELSE <<>>)
    \o (IF search_type \in {"semantic", "all"}
        THEN <<[collaborator |-> "semantic_searcher.search",
                method |-> "semantic"]>>
        ELSE <<>>)
    \o (IF search_type \in {"topic", "all"}
        THEN <<[collaborator |-> "semantic_searcher.search_by_theme",
                method |-> "topic"]>>
        ELSE <<>>)

\* lines 150-178: the collaborator calls the selector leads to, in order,
\* each with the tag its results are given
strategy_calls(search_type) ==
    (IF search_type \in {"exact", "all"}
     THEN <<[collaborator |-> "db.search_text", method |-> "exact"]>>
     ELSE <<>>)
    \o (IF search_type \in {"fuzzy", "all"}
        THEN <<[collaborator |-> "fuzzy_searcher.search", method |-> "fuzzy"]>>
        ELSE <<>>)
    \o (IF search_type \in {"semantic", "all"}
        THEN <<[collaborator |-> "semantic_searcher.search",
                method |-> "semantic"]>>
        ELSE <<>>)
    \o (IF search_type = "topic"
        THEN <<[collaborator |-> "semantic_searcher.search_by_theme",
                method |-> "topic"]>>
        ELSE <<>>)

\* one collaborator call and the loop that tags what it returns (and, for
\* the vector strategies, renames semantic_score to score)
strategy_results(c, limit, lit, ratio, vec, size) ==
    IF c.collaborator = "db.search_text"
    THEN LET found == search_text(lit, limit)
         IN  [k \in DOMAIN found |-> Tagged(c.method, found[k])]
    ELSE IF c.collaborator = "fuzzy_searcher.search"
    THEN LET found == fuzzy_search(ratio, limit, size)
         IN  [k \in DOMAIN found |-> Tagged(c.method, found[k])]
    ELSE IF c.collaborator = "semantic_searcher.search"
    THEN LET found == semantic_search(vec, limit)
         IN  [k \in DOMAIN found |-> TaggedRenamed(c.method, found[k])]
    ELSE LET found == search_by_theme(vec, limit)
         IN  [k \in DOMAIN found |-> TaggedRenamed(c.method, found[k])]

\* results.extend(...) over the calls made
RECURSIVE extend_from(_, _, _, _, _, _)
extend_from(calls, limit, lit, ratio, vec, size) ==
    IF calls = <<>> THEN <<>>
    ELSE strategy_results(Head(calls), limit, lit, ratio, vec, size)
             \o extend_from(Tail(calls), limit, lit, ratio, vec, size)

\* lines 150-178: the tagged results of the strategies the selector invokes
fan_out(search_type, limit, lit, ratio, vec, size) ==
    extend_from(strategy_calls(search_type), limit, lit, ratio, vec, size)

\* lines 205-221 (query and execution_time are echoed and left out)
envelope(search_type, results, categorize) ==
    IF categorize
    THEN [search_type |-> search_type, total_results |-> Len(results),
          categorized_results |-> _categorize_results(results)]
    ELSE [search_type |-> search_type, total_results |-> Len(results),
          results |-> results]

\* What search() has written into a result dict by the time it returns: the
\* tag and the renamed score, and the clean-up if the dict is in the response.
written(result, final, include_scores) ==
    IF /\ ~include_scores
       /\ \E i \in DOMAIN final :
             /\ final[i].id = result.id
             /\ final[i].search_method = result.search_method
    THEN strip_scores(result)
    ELSE result

\* a loaded verse after search() wrote into the result made from it, were
\* the result the verse's own dict (verse = self.verses[idx], no copy)
verse_after_writes_unshielded(verse, result_dict) == result_dict

\* A loaded verse after search() wrote into the result made from it: the
\* searchers hand out verse.copy() (fuzzy_search.py line 67,
\* semantic_search.py line 108), a new dict, so the verse keeps its fields.
verse_after_writes(verse, result_dict) == verse

\* a searcher's loaded corpus after a search that got `results` (tagged by
\* one of `methods`) from it
corpus_after(verses, methods, results, final, include_scores) ==
    [p \in DOMAIN verses |->
        LET made == {k \in DOMAIN results :
                        /\ results[k].id = verses[p].id
                        /\ results[k].search_method \in methods}
        IN  IF made = {} THEN verses[p]
            ELSE verse_after_writes(verses[p],
                     written(results[CHOOSE k \in made : TRUE], final,
                             include_scores))]

\* lines 143-223 for a valid selector: fan-out, fusion and the envelope
Serve(search_type, limit, categorize, include_scores, lit, ratio, vec, size) ==
    LET results == fan_out(search_type, limit, lit, ratio, vec, size)
        final == clean_up(limit_results(sort_by_score(
                     remove_duplicates(results)), limit), include_scores)
        calls == strategy_calls(search_type)
    IN  /\ facts' = [lit |-> lit, ratio |-> ratio, vec |-> vec, size |-> size]
        /\ invoked' = invoked \o [k \in DOMAIN calls |-> calls[k].collaborator]
        /\ arrived' = results
        /\ fused' = final
        /\ response' = envelope(search_type, final, categorize)
        /\ raised' = "none"
        /\ fuzzy_verses' = corpus_after(fuzzy_verses, {"fuzzy"}, results, final,
                                        include_scores)
        /\ sem_verses' = corpus_after(sem_verses, {"semantic", "topic"},
                                      results, final, include_scores)

\* search() on an initialized searcher
Search ==
    /\ pc = "idle"
    /\ \E search_type \in SearchTypes, limit \in Limits,
          categorize \in BOOLEAN, include_scores \in BOOLEAN :
       \E lit \in LiteralFacts(search_type), ratio \in FuzzyFacts(search_type),
          vec \in VectorFacts(search_type) :
       \E size \in ExtractSizes(search_type, limit, ratio) :
         /\ call' = [search_type |-> search_type, limit |-> limit,
                         categorize |-> categorize,
                         include_scores |-> include_scores]
         /\ Serve(search_type, limit, categorize, include_scores,
                  lit, ratio, vec, size)
    /\ pc' = "done"
    /\ UNCHANGED <<initVars, embeddings, cache_file, last_load, catVars>>

\* the caller takes the response; the per-query results are discarded
Return ==
    /\ pc = "done"
    /\ pc' = "idle"
    /\ call' = None
    /\ facts' = None
    /\ arrived' = <<>>
    /\ fused' = <<>>
    /\ response' = None
    /\ invoked' = <<>>
    /\ raised' = "none"
    /\ UNCHANGED <<initVars, loadVars, catVars>>

\* the searcher after initialize() on a populated store
Init ==
    /\ pc = "idle"
    /\ call = None
    /\ facts = None
    /\ arrived = <<>>
    /\ fused = <<>>
    /\ response = None
    /\ invoked = <<>>
    /\ raised = "none"
    /\ is_initialized = TRUE
    /\ store = AllVerses
    /\ data_dir = "files"
    /\ fuzzy_verses = AllVerses
    /\ sem_verses = AllVerses
    /\ embeddings = Array(encode(AllVerses))
    /\ cache_file = Pickled([verse_ids |-> [p \in DOMAIN AllVerses |-> AllVerses[p].id],
                             embeddings |-> encode(AllVerses)])
    /\ last_load = None
    /\ cat_in = <<>>
    /\ cat_out = <<>>

Next == Search \/ Return

Spec == Init /\ [][Next]_vars

(***************************************************************************)
(* Properties of the fusion in BibleSearcher.search.                       *)
(***************************************************************************)
Ids(results) == {results[i].id : i \in DOMAIN results}

\* the score a strategy produced for a result: the literal strategy reports
\* its relevance in 'rank', the others in 'score'
Produced(result) ==
    IF "score" \in DOMAIN result THEN result.score
    ELSE Get(result, "rank", 0)

\* the best score any strategy produced for a verse id in this query
BestProduced(id) ==
    LET scores == {Produced(arrived[k]) :
                      k \in {k \in DOMAIN arrived : arrived[k].id = id}}
    IN  CHOOSE m \in scores : \A x \in scores : x <= m

Scored == pc = "done" /\ call.include_scores

\* C1: Dedup correctness.  Of the results the invoked strategies produced,
\* the fused list holds no verse id twice, holds every id unless the limit
\* cut it off, and the entry kept for an id carries the maximum score any
\* strategy produced for that id.
C1_DedupKeepsMaxScore ==
    Scored =>
        /\ \A i, j \in DOMAIN fused : fused[i].id = fused[j].id => i = j
        /\ Ids(fused) \subseteq Ids(arrived)
        /\ Len(fused) = Min(call.limit, Cardinality(Ids(arrived)))
        /\ \A i \in DOMAIN fused : Produced(fused[i]) = BestProduced(fused[i].id)

\* where a retained entry stood in the concatenated strategy output
ArrivalIndex(result) == CHOOSE k \in DOMAIN arrived : arrived[k] = result

\* C2: Sort stability.  The fused list is in descending score order, and
\* two retained entries of equal score stand in the order in which they
\* themselves arrived in the concatenated strategy output.
C2_StableByArrival ==
    Scored =>
        /\ \A i, j \in DOMAIN fused :
              i < j => ScoreOf(fused[i]) >= ScoreOf(fused[j])
        /\ \A i, j \in DOMAIN fused :
              i < j /\ ScoreOf(fused[i]) = ScoreOf(fused[j])
                  => ArrivalIndex(fused[i]) < ArrivalIndex(fused[j])

\* C3: Fusion scenario.  In a combined search the literal relevance values
\* rank on the same footing as the fuzzy and vector scores: the response is
\* ordered by the best score produced for each verse and no verse left out
\* by the limit outscores one that is returned (literal A 80 and B 50, fuzzy
\* B and C 90, vector D 0.9, limit 2: C then A).
C3_LiteralOnSameFooting ==
    Scored /\ call.search_type = "all" =>
        /\ \A i, j \in DOMAIN fused :
              i < j => BestProduced(fused[i].id) >= BestProduced(fused[j].id)
        /\ \A id \in Ids(arrived) \ Ids(fused) : \A i \in DOMAIN fused :
              BestProduced(fused[i].id) >= BestProduced(id)

\* every result dict of the response, flat or categorized
Returned ==
    IF "results" \in DOMAIN response
    THEN {response.results[i] : i \in DOMAIN response.results}
    ELSE LET cat == response.categorized_results
         IN  UNION {UNION {{cat[b].value[c].value[k] :
                                k \in DOMAIN cat[b].value[c].value} :
                            c \in DOMAIN cat[b].value} :
                     b \in DOMAIN cat}

\* C10: Score stripping.  With include_scores = false no result of the
\* response, flat or categorized, has a 'score' or a 'rank' field.
C10_NoScoreFields ==
    pc = "done" /\ ~call.include_scores =>
        \A r \in Returned : "score" \notin DOMAIN r /\ "rank" \notin DOMAIN r

\* a combined search without scores that returns a literal and a fuzzy hit
C10_Witness ==
    /\ pc = "done"
    /\ ~call.include_scores
    /\ call.search_type = "all"
    /\ \E r \in Returned : r.search_method = "exact"
    /\ \E r \in Returned : r.search_method = "fuzzy"
    /\ \E k \in DOMAIN arrived : "rank" \in DOMAIN arrived[k]
    /\ \E k \in DOMAIN arrived : "score" \in DOMAIN arrived[k]

\* where a verse id first appeared in the concatenated strategy output
FirstArrival(id) ==
    CHOOSE k \in DOMAIN arrived :
        arrived[k].id = id /\ \A m \in 1..(k - 1) : arrived[m].id # id

\* the 'score' the retained entry of a verse id has (absent counts as 0)
KeptScore(id) ==
    LET scores == {ScoreOf(arrived[k]) :
                      k \in {k \in DOMAIN arrived : arrived[k].id = id}}
    IN  CHOOSE m \in scores : \A x \in scores : x <= m

\* C2 as amended: the fused list is in descending order of the retained
\* entries' 'score' (absent counts as 0), and two retained entries of equal
\* score stand in the order in which their verse ids first appeared in the
\* concatenated strategy output.
C2_StableByFirstArrival ==
    pc = "done" =>
        /\ \A i, j \in DOMAIN fused :
              i < j => KeptScore(fused[i].id) >= KeptScore(fused[j].id)
        /\ \A i, j \in DOMAIN fused :
              i < j /\ KeptScore(fused[i].id) = KeptScore(fused[j].id)
                  => FirstArrival(fused[i].id) < FirstArrival(fused[j].id)
        /\ Scored => \A i \in DOMAIN fused :
              ScoreOf(fused[i]) = KeptScore(fused[i].id)

\* two retained entries tie, and the one returned first arrived last: it
\* replaced an earlier entry of its verse id
C2_Witness ==
    /\ Scored
    /\ \E i, j \in DOMAIN fused :
          /\ i < j
          /\ ScoreOf(fused[i]) = ScoreOf(fused[j])
          /\ ArrivalIndex(fused[i]) > ArrivalIndex(fused[j])
          /\ FirstArrival(fused[i].id) < ArrivalIndex(fused[i])

(***************************************************************************)
(* _categorize_results on its own: any list of results a search can hand   *)
(* it (distinct verse ids, any book and chapter labels).                   *)
(***************************************************************************)
BookNames == {"Genesis", "Exodus"}
ChapterNames == {"Genesis 1", "genesis 1"}

ResultLists ==
    UNION {[1..n -> BookNames \X ChapterNames] : n \in 0..MaxResults}

\* the result dict of verse id at a place <<book_name, chapter_name>>
ResultAt(id, place) ==
    [id |-> id, text |-> TextOf(id, 1),
     book_name |-> place[1], chapter_name |-> place[2],
     search_method |-> "exact"]

InitCat ==
    /\ pc = "idle"
    /\ call = None
    /\ facts = None
    /\ arrived = <<>>
    /\ fused = <<>>
    /\ response = None
    /\ invoked = <<>>
    /\ raised = "none"
    /\ is_initialized = FALSE
    /\ store = <<>>
    /\ data_dir = "unset"
    /\ fuzzy_verses = <<>>
    /\ sem_verses = <<>>
    /\ embeddings = NoEmbeddings
    /\ cache_file = Absent
    /\ last_load = None
    /\ \E places \in ResultLists :
          cat_in = [i \in DOMAIN places |-> ResultAt(i, places[i])]
    /\ cat_out = <<>>

Categorize ==
    /\ pc = "idle"
    /\ cat_out' = _categorize_results(cat_in)
    /\ pc' = "done"
    /\ UNCHANGED <<call, facts, arrived, fused, response, invoked, raised, initVars,
                   loadVars, cat_in>>

NextCat == Categorize

SpecCat == InitCat /\ [][NextCat]_vars

\* the chapter buckets of one book, in mapping order, end to end
RECURSIVE FlattenChapters(_)
FlattenChapters(chapters) ==
    IF chapters = <<>> THEN <<>>
    ELSE Head(chapters).value \o FlattenChapters(Tail(chapters))

\* book-major, chapter-minor, within-chapter order kept
RECURSIVE Flatten(_)
Flatten(categorized) ==
    IF categorized = <<>> THEN <<>>
    ELSE FlattenChapters(Head(categorized).value) \o Flatten(Tail(categorized))

\* C8: Categorization round-trip.  Flattening the categorized output gives
\* back exactly the list that was categorized.
C8_RoundTrip == pc = "done" => Flatten(cat_out) = cat_in

SameBook(r, s) == r.book_name = s.book_name
SameBucket(r, s) == SameBook(r, s) /\ r.chapter_name = s.chapter_name

\* the results of each book stand together and, within a book, the results
\* of each chapter stand together
Grouped(results) ==
    \A i, j, k \in DOMAIN results :
        i < j /\ j < k =>
            /\ SameBook(results[i], results[k]) => SameBook(results[i], results[j])
            /\ SameBucket(results[i], results[k])
                   => SameBucket(results[i], results[j])

\* C8 as amended: flattening gives every result of the list exactly once,
\* and gives back the list itself exactly when the list is already grouped
\* by book and chapter.
C8_RoundTripIffGrouped ==
    pc = "done" =>
        LET flat == Flatten(cat_out)
        IN  /\ Len(flat) = Len(cat_in)
            /\ \A i \in DOMAIN cat_in : \E k \in DOMAIN flat : flat[k] = cat_in[i]
            /\ (flat = cat_in) <=> Grouped(cat_in)

\* a list whose first and third result share a bucket the second is not in
C8_Witness ==
    /\ pc = "done"
    /\ Len(cat_in) = 3
    /\ SameBucket(cat_in[1], cat_in[3])
    /\ ~SameBook(cat_in[1], cat_in[2])
    /\ Flatten(cat_out) = <<cat_in[1], cat_in[3], cat_in[2]>>

\* the distinct values of a sequence, in order of first occurrence
FirstOccurrences(seq) ==
    LET firsts == Ascending({i \in DOMAIN seq :
                                \A j \in 1..(i - 1) : seq[j] # seq[i]})
    IN  [p \in DOMAIN firsts |-> seq[firsts[p]]]

Keys(mapping) == [i \in DOMAIN mapping |-> mapping[i].key]

\* C9: Categorization is an order-preserving partition.  Books, and the
\* chapters of each book, are keyed in order of first occurrence in the
\* list; each bucket holds exactly the results of its book and chapter, in
\* list order; so every result is in exactly one bucket.
C9_OrderPreservingPartition ==
    pc = "done" =>
        /\ Keys(cat_out) = FirstOccurrences([i \in DOMAIN cat_in |-> cat_in[i].book_name])
        /\ \A b \in DOMAIN cat_out :
              LET of_book == SelectSeq(cat_in,
                                 LAMBDA r : r.book_name = cat_out[b].key)
                  chapters == cat_out[b].value
              IN  /\ Keys(chapters) =
                        FirstOccurrences([i \in DOMAIN of_book |-> of_book[i].chapter_name])
                  /\ \A c \in DOMAIN chapters :
                        chapters[c].value =
                            SelectSeq(of_book,
                                LAMBDA r : r.chapter_name = chapters[c].key)
        /\ Len(Flatten(cat_out)) = Len(cat_in)

\* three results in two books: the first and third make up one bucket, the
\* second lies between them in the list and in another book
C9_Witness ==
    /\ pc = "done"
    /\ Len(cat_in) = 3
    /\ Len(cat_out) = 2
    /\ \E b \in DOMAIN cat_out : \E c \in DOMAIN cat_out[b].value :
          cat_out[b].value[c].value = <<cat_in[1], cat_in[3]>>

(***************************************************************************)
(* SemanticSearcher.load_verses and the embeddings file.                   *)
(***************************************************************************)
\* str() of a non-negative integer: its decimal digits
RECURSIVE Str(_)
Str(n) == IF n < 10 THEN <<n>> ELSE Append(Str(n \div 10), n % 10)

\* verse.get('id', i) for the verse at (1-based) place p
IdAt(verses, p) == Get(verses[p], "id", p - 1)

\* the validity check, were it to compare the lengths only
ids_match_by_length(verse_ids, verses) == Len(verse_ids) = Len(verses)

\* lines 54-56: the validity check of a saved entry
ids_match(verse_ids, verses) ==
    /\ Len(verse_ids) = Len(verses)
    /\ \A p \in DOMAIN verses : Str(verse_ids[p]) = Str(IdAt(verses, p))

\* the pickled dict, were verse.get('id', i) to fall back to the index
saved_entry_by_index(verses, vectors) ==
    [verse_ids |-> [p \in DOMAIN verses |-> p - 1],
     embeddings |-> vectors]

\* lines 70-73: the dict that is pickled
saved_entry(verses, vectors) ==
    [verse_ids |-> [p \in DOMAIN verses |-> IdAt(verses, p)],
     embeddings |-> vectors]

\* The state load_verses leaves behind and how it ended.  `provider_ok`
\* tells whether model.encode succeeds should it be called.
\*   outcome "reused"    returned at line 59
\*           "computed"  returned after line 74
\*           "error"     an exception left the call
load_verses(verses, force_recompute, provider_ok) ==
    LET failed(called) ==
            [verses |-> verses, embeddings |-> embeddings, file |-> cache_file,
             outcome |-> "error", provider_called |-> called]
        compute ==
            IF provider_ok
            THEN [verses |-> verses,
                  embeddings |-> Array(encode(verses)),
                  file |-> Pickled(saved_entry(verses, encode(verses))),
                  outcome |-> "computed", provider_called |-> TRUE]
            ELSE failed(TRUE)
        saved_data == cache_file.data
    IN  IF ~force_recompute /\ cache_file.state # "absent"
        THEN IF cache_file.state = "unreadable"
                 THEN failed(FALSE)                  \* pickle.load raises
             ELSE IF "verse_ids" \notin DOMAIN saved_data
                 THEN failed(FALSE)                  \* KeyError
             ELSE IF ids_match(saved_data.verse_ids, verses)
                 THEN IF "embeddings" \notin DOMAIN saved_data
                      THEN failed(FALSE)             \* KeyError
                      ELSE [verses |-> verses,
                            embeddings |-> Array(saved_data.embeddings),
                            file |-> cache_file,
                            outcome |-> "reused", provider_called |-> FALSE]
             ELSE compute
        ELSE compute

\* the corpora load_verses is handed: distinct verse ids in any order, the
\* texts of one edition of the data files
Editions == {1, 2}

IdSequences ==
    {ids \in UNION {[1..n -> 1..MaxVerseId] : n \in 0..MaxCorpusLen} :
        \A a, b \in DOMAIN ids : a # b => ids[a] # ids[b]}

Corpora ==
    {[p \in DOMAIN ids |-> VerseRow(ids[p], e)] :
        ids \in IdSequences, e \in Editions}

Load ==
    /\ pc = "idle"
    /\ \E verses \in Corpora, force_recompute \in BOOLEAN, provider_ok \in BOOLEAN :
         LET after == load_verses(verses, force_recompute, provider_ok)
         IN  /\ sem_verses' = after.verses
             /\ embeddings' = after.embeddings
             /\ cache_file' = after.file
             /\ last_load' = [outcome |-> after.outcome,
                              provider_called |-> after.provider_called,
                              force_recompute |-> force_recompute,
                              before |-> cache_file]
    /\ pc' = "done"
    /\ UNCHANGED <<call, facts, arrived, fused, response, invoked, raised, initVars,
                   fuzzy_verses, catVars>>

\* the caller of load_verses goes on
Loaded ==
    /\ pc = "done"
    /\ pc' = "idle"
    /\ last_load' = None
    /\ UNCHANGED <<call, facts, arrived, fused, response, invoked, raised, initVars,
                   fuzzy_verses, sem_verses, embeddings, cache_file, catVars>>

\* Between two loads the file may be damaged from outside: cut short, or
\* replaced by a pickle that lacks one of the two fields.
Damage ==
    /\ pc = "idle"
    /\ cache_file.state = "pickled"
    /\ \/ cache_file' = Unreadable
       \/ /\ "verse_ids" \in DOMAIN cache_file.data
          /\ cache_file' = Pickled(Without(cache_file.data, {"verse_ids"}))
       \/ /\ "embeddings" \in DOMAIN cache_file.data
          /\ cache_file' = Pickled(Without(cache_file.data, {"embeddings"}))
    /\ UNCHANGED <<searchVars, initVars, fuzzy_verses, sem_verses, embeddings,
                   last_load, catVars>>

\* a new SemanticSearcher, the embeddings file not yet written
InitCache ==
    /\ pc = "idle"
    /\ call = None
    /\ facts = None
    /\ arrived = <<>>
    /\ fused = <<>>
    /\ response = None
    /\ invoked = <<>>
    /\ raised = "none"
    /\ is_initialized = FALSE
    /\ store = <<>>
    /\ data_dir = "unset"
    /\ fuzzy_verses = <<>>
    /\ sem_verses = <<>>
    /\ embeddings = NoEmbeddings
    /\ cache_file = Absent
    /\ last_load = None
    /\ cat_in = <<>>
    /\ cat_out = <<>>

NextCache == Load \/ Loaded \/ Damage

SpecCache == InitCache /\ [][NextCache]_vars

(***************************************************************************)
(* Properties of the embedding cache.                                      *)
(***************************************************************************)
CorpusIds(verses) == [p \in DOMAIN verses |-> verses[p].id]

\* the file held a pickled dict with both fields when the call began
EntryBefore ==
    /\ last_load.before.state = "pickled"
    /\ {"verse_ids", "embeddings"} \subseteq DOMAIN last_load.before.data

\* the entry of the loaded corpus: its verse ids and the vectors of its texts
FreshEntry ==
    [verse_ids |-> CorpusIds(sem_verses),
     embeddings |-> [p \in DOMAIN sem_verses |-> <<"vec", sem_verses[p].text>>]]

\* C4: Cache validity check.  A load without force_recompute that finds a
\* persisted entry reuses it, without calling the provider, if and only if
\* the stored verse-id sequence equals the corpus's verse-id sequence place
\* by place; any other sequence sends the load to the provider.
C4_ReuseIffSameIdSequence ==
    pc = "done" /\ ~last_load.force_recompute /\ EntryBefore =>
        LET stored == last_load.before.data
        IN  IF stored.verse_ids = CorpusIds(sem_verses)
            THEN /\ last_load.outcome = "reused"
                 /\ ~last_load.provider_called
                 /\ embeddings = Array(stored.embeddings)
                 /\ cache_file = last_load.before
            ELSE /\ last_load.outcome # "reused"
                 /\ last_load.provider_called

\* the entry of <<1, 2>> met the corpus <<2, 1>> and was recomputed
C4_Witness ==
    /\ pc = "done"
    /\ ~last_load.force_recompute
    /\ EntryBefore
    /\ last_load.before.data.verse_ids = <<1, 2>>
    /\ CorpusIds(sem_verses) = <<2, 1>>
    /\ last_load.outcome = "computed"
    /\ cache_file.data.verse_ids = <<2, 1>>

\* the file was there when the call began but was no usable entry
DamagedBefore == last_load.before.state # "absent" /\ ~EntryBefore

\* C5: Cache corruption handling.  A load that finds an unreadable file, or
\* one lacking a field, goes on as for an absent file: it asks the provider
\* for all embeddings and, the provider answering, overwrites the file and
\* returns normally.
C5_DamagedFileIsRecomputed ==
    pc = "done" /\ ~last_load.force_recompute /\ DamagedBefore =>
        /\ last_load.provider_called
        /\ last_load.outcome = "computed" =>
              cache_file = Pickled(FreshEntry) /\ embeddings = Array(FreshEntry.embeddings)

\* the verse id a vector was computed for
VectorId(vector) == vector[2][1]

\* C6: Cache terminal state.  A load that returns normally leaves one vector
\* per loaded verse, vector p computed for the verse id at place p, and a
\* persisted entry whose verse-id sequence is the corpus's; a computation
\* replaces the entry in full; a load that ends in an error leaves the file
\* as it found it.
C6_ReturnsValid ==
    pc = "done" =>
        /\ last_load.outcome \in {"reused", "computed"} =>
              /\ ~embeddings.is_none
              /\ Len(embeddings.vectors) = Len(sem_verses)
              /\ \A p \in DOMAIN sem_verses :
                    VectorId(embeddings.vectors[p]) = sem_verses[p].id
              /\ cache_file.state = "pickled"
              /\ DOMAIN cache_file.data = {"verse_ids", "embeddings"}
              /\ cache_file.data.verse_ids = CorpusIds(sem_verses)
              /\ cache_file.data.embeddings = embeddings.vectors
        /\ last_load.outcome = "computed" => cache_file = Pickled(FreshEntry)
        /\ last_load.outcome = "error" => cache_file = last_load.before

\* a computation for a two-verse corpus replaced the entry of another corpus
C6_Witness ==
    /\ pc = "done"
    /\ last_load.outcome = "computed"
    /\ EntryBefore
    /\ last_load.before.data.verse_ids # CorpusIds(sem_verses)
    /\ Len(sem_verses) = 2
    /\ cache_file = Pickled(FreshEntry)

\* C7: Cache refresh on corpus change.  A load that returns normally for a
\* corpus other than the one the persisted entry was computed from (other
\* ids, another order, or other texts under the same ids) has computed and
\* persisted a full new entry.
C7_ChangedCorpusIsRecomputed ==
    pc = "done" /\ last_load.outcome # "error" /\ EntryBefore
                /\ last_load.before.data # FreshEntry =>
        /\ last_load.outcome = "computed"
        /\ cache_file = Pickled(FreshEntry)
        /\ embeddings = Array(FreshEntry.embeddings)

\* C17: Embedding/corpus pairing.  After any sequence of load_verses
\* calls, failed ones included, a searcher that holds embeddings holds one
\* vector per loaded verse, vector p being that of the verse at place p: a
\* failed load leaves no new corpus beside the embeddings of an earlier one.
C17_EmbeddingsPairedWithCorpus ==
    ~embeddings.is_none =>
        /\ Len(embeddings.vectors) = Len(sem_verses)
        /\ \A p \in DOMAIN sem_verses :
              VectorId(embeddings.vectors[p]) = sem_verses[p].id

(***************************************************************************)
(* Properties of the fan-out of BibleSearcher.search.                      *)
(***************************************************************************)
\* the verse ids the call in progress would return, had it been made with
\* limit n on the same query and corpus
IdsWithLimit(n) ==
    LET results == fan_out(call.search_type, n, facts.lit, facts.ratio,
                           facts.vec, facts.size)
    IN  Ids(limit_results(sort_by_score(remove_duplicates(results)), n))

\* C11: Unbounded limit.  A search with limit <= 0 returns every
\* de-duplicated result the invoked strategies can produce for the query:
\* the verse ids a limit above the size of the corpus would return.
C11_UnboundedLimit ==
    pc = "done" /\ call.limit <= 0 => Ids(fused) = IdsWithLimit(NumVerses + 1)

\* the retrieval collaborators a selector implies
Implied(search_type) ==
    CASE search_type = "exact" -> {"db.search_text"}
      [] search_type = "fuzzy" -> {"fuzzy_searcher.search"}
      [] search_type = "semantic" -> {"semantic_searcher.search"}
      [] search_type = "topic" -> {"semantic_searcher.search_by_theme"}
      [] search_type = "all" -> {"db.search_text", "fuzzy_searcher.search",
                                 "semantic_searcher.search"}

\* The strategy a result came from, told by what only that strategy puts
\* into a result: the literal query a 'rank', the fuzzy scorer a score in
\* points (at least ScoreCutoff points), the vector index one of at most 1.
OriginOf(result) ==
    IF "rank" \in DOMAIN result THEN "literal"
    ELSE IF result.score >= Pts(ScoreCutoff) THEN "fuzzy"
    ELSE "vector"

\* the tag a result of that strategy is to carry under a selector
TagOf(origin, search_type) ==
    CASE origin = "literal" -> "exact"
      [] origin = "fuzzy" -> "fuzzy"
      [] origin = "vector" ->
            IF search_type = "topic" THEN "topic" ELSE "semantic"

\* the collaborator that serves a strategy under a selector
CollaboratorOf(origin, search_type) ==
    CASE origin = "literal" -> "db.search_text"
      [] origin = "fuzzy" -> "fuzzy_searcher.search"
      [] origin = "vector" ->
            IF search_type = "topic" THEN "semantic_searcher.search_by_theme"
            ELSE "semantic_searcher.search"

\* C12: Fan-out dispatch.  A search invokes exactly the retrieval
\* collaborators its selector implies, each once; every result comes from
\* one of them and is tagged with its strategy; and every result of the
\* response carries the tag of the retained entry of its verse id.
C12_FanOutDispatch ==
    pc = "done" =>
        /\ {invoked[k] : k \in DOMAIN invoked} = Implied(call.search_type)
        /\ Len(invoked) = Cardinality(Implied(call.search_type))
        /\ \A k \in DOMAIN arrived :
              /\ CollaboratorOf(OriginOf(arrived[k]), call.search_type)
                     \in Implied(call.search_type)
              /\ arrived[k].search_method =
                     TagOf(OriginOf(arrived[k]), call.search_type)
        /\ \A r \in Returned : \E k \in DOMAIN arrived :
              /\ arrived[k].id = r.id
              /\ ScoreOf(arrived[k]) = KeptScore(r.id)
              /\ r.search_method = arrived[k].search_method

\* a combined search in which all three strategies found the same verse and
\* the fuzzy entry was retained, beside a verse only the vector index found
C12_Witness ==
    /\ pc = "done"
    /\ call.search_type = "all"
    /\ Len(invoked) = 3
    /\ \E id \in Ids(arrived) :
          /\ Cardinality({k \in DOMAIN arrived : arrived[k].id = id}) = 3
          /\ \E r \in Returned : r.id = id /\ r.search_method = "fuzzy"
    /\ \E r \in Returned : r.search_method = "semantic"

\* the places of the fused list whose entry carries the tag `method`
Places(method) == {i \in DOMAIN fused : fused[i].search_method = method}

\* C19: Scale-biased ranking.  In a combined search the scores are compared
\* as they come: every retained fuzzy entry (score at least 70 points)
\* stands before every retained vector entry (score between 0.5 and 1); a
\* retained literal entry has a 'rank' and no 'score', counts as 0 and
\* stands after every fuzzy and vector entry, whatever its rank; and no
\* literal entry is retained for a verse the fuzzy or vector strategy found.
C19_ScaleBiasedRanking ==
    pc = "done" /\ call.search_type = "all" =>
        /\ \A i \in Places("fuzzy"), j \in Places("semantic") : i < j
        /\ \A i \in Places("fuzzy") \cup Places("semantic"), j \in Places("exact") :
              i < j
        /\ \A k \in DOMAIN arrived :
              CASE arrived[k].search_method = "exact" ->
                      "score" \notin DOMAIN arrived[k] /\ "rank" \in DOMAIN arrived[k]
                [] arrived[k].search_method = "fuzzy" ->
                      arrived[k].score >= Pts(ScoreCutoff)
                [] arrived[k].search_method = "semantic" ->
                      arrived[k].score >= Threshold /\ arrived[k].score <= Pts(1)
        /\ \A j \in Places("exact") : \A k \in DOMAIN arrived :
              arrived[k].id = fused[j].id => arrived[k].search_method = "exact"

\* a combined search that returns a fuzzy entry of 75 points before a
\* literal entry of relevance 80, the fuzzy entry having displaced a literal
\* entry of relevance 80 and a vector entry for its verse
C19_Witness ==
    /\ Scored
    /\ call.search_type = "all"
    /\ Len(fused) = 2
    /\ fused[1].search_method = "fuzzy" /\ fused[1].score = Pts(75)
    /\ fused[2].search_method = "exact" /\ fused[2].rank = Pts(80)
    /\ \E k \in DOMAIN arrived :
          /\ arrived[k].id = fused[1].id
          /\ arrived[k].search_method = "exact"
          /\ arrived[k].rank = Pts(80)
    /\ \E k \in DOMAIN arrived :
          arrived[k].id = fused[1].id /\ arrived[k].search_method = "semantic"

\* the fields of a stored verse
VerseFields == {"id", "text", "book_name", "chapter_name"}

\* C16: Queries are read-only.  On an initialized searcher, whatever
\* searches have been made, both searchers hold the corpus they loaded, verse
\* for verse and field for field (no tag, no score), the embedding matrix
\* is the loaded one and the embeddings file is as persisted.
C16_QueriesAreReadOnly ==
    /\ fuzzy_verses = [p \in 1..NumVerses |-> VerseRow(p, 1)]
    /\ sem_verses = [p \in 1..NumVerses |-> VerseRow(p, 1)]
    /\ \A p \in DOMAIN fuzzy_verses :
          DOMAIN fuzzy_verses[p] = VerseFields /\ DOMAIN sem_verses[p] = VerseFields
    /\ embeddings =
          Array([p \in 1..NumVerses |-> <<"vec", TextOf(p, 1)>>])
    /\ cache_file =
          Pickled([verse_ids |-> [p \in 1..NumVerses |-> p],
                   embeddings |-> [p \in 1..NumVerses |-> <<"vec", TextOf(p, 1)>>]])

\* a combined search without scores whose response holds a fuzzy and a
\* vector result: both were tagged, the vector result's score was renamed,
\* and both were stripped of their scores
C16_Witness ==
    /\ pc = "done"
    /\ call.search_type = "all"
    /\ ~call.include_scores
    /\ \E k \in DOMAIN arrived :
          arrived[k].search_method = "semantic" /\ "score" \in DOMAIN arrived[k]
    /\ \E r \in Returned : r.search_method = "fuzzy" /\ "score" \notin DOMAIN r
    /\ \E r \in Returned : r.search_method = "semantic" /\ "score" \notin DOMAIN r

(***************************************************************************)
(* The life of a BibleSearcher: construction over a store and an           *)
(* embeddings file that outlive it, initialize(), and search() on a        *)
(* searcher that may not be initialized yet.                               *)
(***************************************************************************)
\* where data_dir may point: nowhere (None), at no directory, at a directory
\* without JSON files, at one whose JSON files hold no verses, at the
\* directory of the data files
DataDirs == {"unset", "missing", "empty", "blank", "files"}

\* the selectors a caller passes: those of SearchType and one that is not
Selectors == SearchTypes \cup {"phrase"}

\* the row of the verses table that holds verse j of the data files
ImportedRow(id, j) == [VerseRow(j, 1) EXCEPT !.id = id]

\* BibleDatabase.import_bible_json for the data files: every verse is
\* inserted, each under the next free row id; no row is deleted or replaced
import_bible_json(rows) ==
    IF data_dir = "blank" THEN rows
    ELSE rows \o [j \in 1..NumVerses |-> ImportedRow(Len(rows) + j, j)]

\* the exception _import_bible_data raises before it imports anything
import_error ==
    IF data_dir = "unset" THEN "ValueError"
    ELSE IF data_dir \in {"missing", "empty"} THEN "FileNotFoundError"
    ELSE "none"

\* initialize, were it to set is_initialized before it loads the searchers
initialize_flag_first(force_reload, provider_ok) ==
    LET as_before(exception) ==
            [is_initialized |-> is_initialized, store |-> store,
             fuzzy_verses |-> fuzzy_verses, sem_verses |-> sem_verses,
             embeddings |-> embeddings, file |-> cache_file,
             invoked |-> <<>>, raised |-> exception]
        verse_count == Len(store)
        importing == verse_count = 0 \/ force_reload
        all_verses == IF importing THEN import_bible_json(store) ELSE store
        loaded == load_verses(all_verses, FALSE, provider_ok)
        calls ==
            (IF importing THEN <<"db.import_bible_json">> ELSE <<>>)
            \o <<"db.get_all_verses", "fuzzy_searcher.load_verses",
                 "semantic_searcher.load_verses">>
            \o (IF loaded.provider_called THEN <<"model.encode">> ELSE <<>>)
    IN  IF is_initialized /\ ~force_reload THEN as_before("none")
        ELSE IF importing /\ import_error # "none" THEN as_before(import_error)
        ELSE [is_initialized |-> TRUE,
              store |-> all_verses,
              fuzzy_verses |-> all_verses,
              sem_verses |-> loaded.verses,
              embeddings |-> loaded.embeddings,
              file |-> loaded.file,
              invoked |-> calls,
              raised |-> IF loaded.outcome = "error" THEN "LoadError"
                         ELSE "none"]

\* BibleSearcher.initialize: the state it leaves behind, the collaborator
\* calls it made and the exception that left it.  `provider_ok` tells
\* whether model.encode succeeds should it be called.
initialize(force_reload, provider_ok) ==
    LET as_before(exception) ==
            [is_initialized |-> is_initialized, store |-> store,
             fuzzy_verses |-> fuzzy_verses, sem_verses |-> sem_verses,
             embeddings |-> embeddings, file |-> cache_file,
             invoked |-> <<>>, raised |-> exception]
        verse_count == Len(store)
        importing == verse_count = 0 \/ force_reload
        all_verses == IF importing THEN import_bible_json(store) ELSE store
        loaded == load_verses(all_verses, FALSE, provider_ok)
        calls ==
            (IF importing THEN <<"db.import_bible_json">> ELSE <<>>)
            \o <<"db.get_all_verses", "fuzzy_searcher.load_verses",
                 "semantic_searcher.load_verses">>
            \o (IF loaded.provider_called THEN <<"model.encode">> ELSE <<>>)
    IN  IF is_initialized /\ ~force_reload THEN as_before("none")
        ELSE IF importing /\ import_error # "none" THEN as_before(import_error)
        ELSE [is_initialized |->
                 IF loaded.outcome = "error" THEN is_initialized ELSE TRUE,
              store |-> all_verses,
              fuzzy_verses |-> all_verses,
              sem_verses |-> loaded.verses,
              embeddings |-> loaded.embeddings,
              file |-> loaded.file,
              invoked |-> calls,
              raised |-> IF loaded.outcome = "error" THEN "LoadError"
                         ELSE "none"]

\* lines 139-140 of search()
ensure_initialized(provider_ok) ==
    IF ~is_initialized THEN initialize(FALSE, provider_ok)
    ELSE [is_initialized |-> is_initialized, store |-> store,
          fuzzy_verses |-> fuzzy_verses, sem_verses |-> sem_verses,
          embeddings |-> embeddings, file |-> cache_file,
          invoked |-> <<>>, raised |-> "none"]

\* the searcher, store and embeddings file as a handler finds them
Snapshot ==
    [is_initialized |-> is_initialized, store |-> store,
     fuzzy_verses |-> fuzzy_verses, sem_verses |-> sem_verses,
     embeddings |-> embeddings, file |-> cache_file]

Becomes(after) ==
    /\ is_initialized' = after.is_initialized
    /\ store' = after.store
    /\ fuzzy_verses' = after.fuzzy_verses
    /\ sem_verses' = after.sem_verses
    /\ embeddings' = after.embeddings
    /\ cache_file' = after.file
    /\ invoked' = after.invoked
    /\ raised' = after.raised

\* a caller calls initialize()
Initialize ==
    /\ pc = "idle"
    /\ \E force_reload \in BOOLEAN, provider_ok \in BOOLEAN :
         /\ force_reload => Len(store) < MaxImports * NumVerses
         /\ call' = [op |-> "initialize", force_reload |-> force_reload,
                     before |-> Snapshot]
         /\ Becomes(initialize(force_reload, provider_ok))
    /\ pc' = "done"
    /\ UNCHANGED <<facts, arrived, fused, response, data_dir, last_load,
                   catVars>>

\* a caller calls search(): lines 139-140
Enter ==
    /\ pc = "idle"
    /\ \E search_type \in Selectors, limit \in Limits,
          categorize \in BOOLEAN, include_scores \in BOOLEAN,
          provider_ok \in BOOLEAN :
         LET after == ensure_initialized(provider_ok)
         IN  /\ call' = [op |-> "search", search_type |-> search_type,
                         limit |-> limit, categorize |-> categorize,
                         include_scores |-> include_scores,
                         before |-> Snapshot]
             /\ Becomes(after)
             /\ pc' = IF after.raised = "none" THEN "entered" ELSE "done"
    /\ UNCHANGED <<facts, arrived, fused, response, data_dir, last_load,
                   catVars>>

\* What the collaborators measure for the two queries of this part: one
\* that every verse matches for every strategy and one that none matches.
LiteralHit(search_type, hit) ==
    IF UsesLiteral(search_type) /\ hit
    THEN [like |-> DOMAIN store, occ |-> [i \in DOMAIN store |-> 8]]
    ELSE [like |-> {}, occ |-> <<>>]

FuzzyHit(search_type, hit) ==
    IF UsesFuzzy(search_type) /\ fuzzy_verses # <<>>
    THEN [i \in DOMAIN fuzzy_verses |-> IF hit THEN 75 ELSE 60]
    ELSE <<>>

VectorHit(search_type, hit) ==
    IF UsesVector(search_type) /\ ~embeddings.is_none /\ sem_verses # <<>>
    THEN [sim |-> [i \in DOMAIN embeddings.vectors |-> IF hit THEN 90 ELSE 30],
          order |-> [i \in DOMAIN embeddings.vectors |-> i]]
    ELSE [sim |-> <<>>, order |-> <<>>]

\* search() from line 143 on: the selector is converted, which fails for a
\* string that is no SearchType; a valid one is served
Answer ==
    /\ pc = "entered"
    /\ IF call.search_type \notin SearchTypes
       THEN /\ raised' = "ValueError"
            /\ UNCHANGED <<facts, arrived, fused, response, invoked,
                           fuzzy_verses, sem_verses>>
       ELSE \E hit \in BOOLEAN :
            \E size \in ExtractSizes(call.search_type, call.limit,
                                     FuzzyHit(call.search_type, hit)) :
              Serve(call.search_type, call.limit, call.categorize,
                    call.include_scores, LiteralHit(call.search_type, hit),
                    FuzzyHit(call.search_type, hit),
                    VectorHit(call.search_type, hit), size)
    /\ pc' = "done"
    /\ UNCHANGED <<call, initVars, embeddings, cache_file, last_load, catVars>>

\* the process ends and a new BibleSearcher is constructed over the same
\* database and embeddings file (lines 37-57)
Restart ==
    /\ pc = "idle"
    /\ is_initialized' = FALSE
    /\ fuzzy_verses' = <<>>
    /\ sem_verses' = <<>>
    /\ embeddings' = NoEmbeddings
    /\ UNCHANGED <<searchVars, store, data_dir, cache_file, last_load,
                   catVars>>

\* a new BibleSearcher: the store empty or filled by an earlier run, the
\* embeddings file missing or unreadable
InitNew ==
    /\ pc = "idle"
    /\ call = None
    /\ facts = None
    /\ arrived = <<>>
    /\ fused = <<>>
    /\ response = None
    /\ invoked = <<>>
    /\ raised = "none"
    /\ is_initialized = FALSE
    /\ store \in {<<>>, AllVerses}
    /\ data_dir \in DataDirs
    /\ fuzzy_verses = <<>>
    /\ sem_verses = <<>>
    /\ embeddings = NoEmbeddings
    /\ cache_file \in {Absent, Unreadable}
    /\ last_load = None
    /\ cat_in = <<>>
    /\ cat_out = <<>>

NextLife == Initialize \/ Enter \/ Answer \/ Return \/ Restart

SpecLife == InitNew /\ [][NextLife]_vars

(***************************************************************************)
(* Properties of the life of a BibleSearcher.                              *)
(***************************************************************************)
\* C13: Invalid selector.  A search whose selector is none of exact, fuzzy,
\* semantic, topic, all ends with an error and without a response, having
\* invoked no collaborator, imported no data and computed no embeddings:
\* searcher, store and embeddings file are as the call found them.
C13_InvalidSelectorFailsCleanly ==
    pc = "done" /\ call.op = "search" /\ call.search_type \notin SearchTypes =>
        /\ raised # "none"
        /\ response = None
        /\ invoked = <<>>
        /\ Snapshot = call.before

\* C14: Empty corpus.  A search with a valid selector that finds no verses
\* stored and none loaded completes without error; every invoked strategy
\* gives an empty list and the response has total_results = 0 and an empty
\* result list or an empty categorized mapping.
C14_EmptyCorpusIsNoError ==
    pc = "done" /\ call.op = "search" /\ call.search_type \in SearchTypes
                /\ store = <<>> /\ fuzzy_verses = <<>> /\ sem_verses = <<>> =>
        /\ raised = "none"
        /\ arrived = <<>>
        /\ response.total_results = 0
        /\ Returned = {}

(***************************************************************************)
(* Properties of _categorize_results, continued.                           *)
(***************************************************************************)
\* the chapter buckets of the output, as sets of results
Buckets ==
    UNION {{{cat_out[b].value[c].value[k] : k \in DOMAIN cat_out[b].value[c].value} :
               c \in DOMAIN cat_out[b].value} :
           b \in DOMAIN cat_out}

\* C15: Verbatim grouping.  Two results are in the same chapter bucket if
\* and only if their book_name values are identical and their chapter_name
\* values are identical as recorded; every bucket is keyed by the labels of
\* its results, letter for letter.
C15_VerbatimGrouping ==
    pc = "done" =>
        /\ \A i, j \in DOMAIN cat_in :
              (\E bucket \in Buckets : cat_in[i] \in bucket /\ cat_in[j] \in bucket)
                  <=> /\ cat_in[i].book_name = cat_in[j].book_name
                      /\ cat_in[i].chapter_name = cat_in[j].chapter_name
        /\ \A b \in DOMAIN cat_out : \A c \in DOMAIN cat_out[b].value :
              \A k \in DOMAIN cat_out[b].value[c].value :
                 /\ cat_out[b].value[c].value[k].book_name = cat_out[b].key
                 /\ cat_out[b].value[c].value[k].chapter_name =
                        cat_out[b].value[c].key

\* two results of book 'Genesis', chapters 'Genesis 1' and 'genesis 1': one
\* book with two chapter buckets of one result each
C15_Witness ==
    /\ pc = "done"
    /\ Len(cat_in) = 2
    /\ cat_in[1].book_name = "Genesis" /\ cat_in[2].book_name = "Genesis"
    /\ cat_in[1].chapter_name = "Genesis 1"
    /\ cat_in[2].chapter_name = "genesis 1"
    /\ Len(cat_out) = 1
    /\ Keys(cat_out[1].value) = <<"Genesis 1", "genesis 1">>
    /\ cat_out[1].value[1].value = <<cat_in[1]>>
    /\ cat_out[1].value[2].value = <<cat_in[2]>>

\* the calls that import data or load a searcher
LoadingCalls ==
    {"db.import_bible_json", "db.get_all_verses", "fuzzy_searcher.load_verses",
     "semantic_searcher.load_verses", "model.encode"}

Calls(seq) == {seq[k] : k \in DOMAIN seq}

\* the step begins a call of initialize(force_reload = True)
ForcedReload == call'.op = "initialize" /\ call'.force_reload

\* C18: Initialization protocol.  is_initialized becomes true only in a
\* step that imported the data if the store was empty, then read the verses
\* and loaded both searchers, without error; from then on initialize()
\* without force_reload and every search import nothing and load nothing;
\* a failed initialization of a searcher not yet initialized leaves the
\* flag false, and every search on such a searcher attempts it again.
C18_InitializationProtocol ==
    [][/\ ~is_initialized /\ is_initialized' =>
             /\ raised' = "none"
             /\ {"db.get_all_verses", "fuzzy_searcher.load_verses",
                 "semantic_searcher.load_verses"} \subseteq Calls(invoked')
             /\ store = <<>> => invoked'[1] = "db.import_bible_json"
             /\ fuzzy_verses' = store'
             /\ sem_verses' = store'
             /\ ~embeddings'.is_none
             /\ Len(embeddings'.vectors) = Len(store')
       /\ is_initialized /\ pc = "idle" /\ pc' # "idle" /\ ~ForcedReload =>
             /\ invoked' = <<>>
             /\ is_initialized'
             /\ <<store, fuzzy_verses, sem_verses, embeddings, cache_file>>' =
                   <<store, fuzzy_verses, sem_verses, embeddings, cache_file>>
       /\ pc = "entered" /\ call.before.is_initialized =>
             /\ Calls(invoked') \cap LoadingCalls = {}
             /\ is_initialized'
             /\ <<store, fuzzy_verses, sem_verses, embeddings, cache_file>>' =
                   <<store, fuzzy_verses, sem_verses, embeddings, cache_file>>
       /\ ~is_initialized /\ pc = "idle" /\ pc' = "done" /\ raised' # "none" =>
             ~is_initialized'
       /\ ~is_initialized /\ pc = "idle" /\ pc' # "idle" /\ call'.op = "search" =>
             \/ raised' # "none"
             \/ is_initialized' /\ "semantic_searcher.load_verses" \in Calls(invoked')
      ]_vars

\* a search on a searcher whose earlier initialization failed in the
\* semantic load (the corpus was loaded, the flag stayed false): it
\* initialized again, this time to the end, and was served
C18_Witness ==
    /\ pc = "done"
    /\ call.op = "search"
    /\ ~call.before.is_initialized
    /\ call.before.fuzzy_verses # <<>>
    /\ call.before.embeddings.is_none
    /\ is_initialized
    /\ raised = "none"
    /\ "model.encode" \in Calls(invoked)
    /\ response.total_results > 0

\* C20: Forced reload is idempotent on the corpus.  After a successful
\* initialize(force_reload = True) on a populated store, the data files
\* being the ones it was populated from, the store holds the same verses
\* under the same ids as before, each verse of the files once, and an
\* embeddings file that was valid before is reused as it is.
C20_ForcedReloadKeepsCorpus ==
    pc = "done" /\ call.op = "initialize" /\ call.force_reload
                /\ data_dir = "files" /\ call.before.store # <<>>
                /\ raised = "none" =>
        /\ CorpusIds(store) = CorpusIds(call.before.store)
        /\ Len(store) = NumVerses
        /\ call.before.file = Pickled([verse_ids |-> CorpusIds(call.before.store),
                                       embeddings |-> call.before.embeddings.vectors])
              => cache_file = call.before.file /\ "model.encode" \notin Calls(invoked)

====
